---- MODULE Spec2Model ----
(***************************************************************************)
(* A model of the repository's two command-line checks:                    *)
(*   - .rhiza/scripts/check_managed_files.py    (ManagedFileGuard)         *)
(*   - .rhiza/scripts/validate_template_bundles.py (BundleValidator)       *)
(* and of the Grid class of src/dummypy/things.py.                         *)
(*                                                                         *)
(* Strings that the code takes apart (paths, manifest lines) are sequences *)
(* of one-character strings; a git ref is the sequence of its              *)
(* "/"-separated components; an environment variable is <<>> when unset    *)
(* and <<value>> when set.                                                 *)
(***************************************************************************)
EXTENDS Integers, Sequences, FiniteSets, TLC

VARIABLES
    \* ---- ManagedFileGuard: inputs
    argv,          \* sys.argv[1:], the candidate paths
    histExists,    \* HISTORY_FILE.exists()
    histLines,     \* the lines of .rhiza/history, in file order
    envCI,         \* os.environ.get("CI"): <<>> or <<value>>
    gitStatus,     \* what `git status --porcelain <file>` does, per file of argv
    \* ---- ManagedFileGuard: program state
    pc,            \* position in main()
    managed,       \* managed_files
    githubBase,    \* os.environ.get("GITHUB_BASE_REF"), once read
    refIdx,        \* position of get_base_ref's loop in candidates
    baseRef,       \* base_ref: <<>> for None, <<ref>> otherwise
    fileIdx,       \* position of main's loop in changed_files
    violations,    \* violations
    calls,         \* every subprocess.run issued so far, in order
    isModLog,      \* every is_modified call so far: arguments, queries, result
    printed,       \* the "  - {v}" lines written to stdout
    exitCode,      \* process exit status: <<>> while running, <<code>> after
    \* ---- BundleValidator: inputs
    fileState,     \* template-bundles.yml: "missing", "invalid", "empty" or "ok"
    data,          \* what yaml.safe_load gives for it
    \* ---- BundleValidator: program state
    vpc,           \* position in main() / validate_template_bundles()
    errors,        \* errors
    bundleIdx,     \* position of the loop over bundles.items()
    result,        \* what validate_template_bundles returned or raised
    bundleLog,     \* every _validate_bundle_structure call: arguments and result
    sectionLog,    \* every _validate_examples / _validate_metadata call, likewise
    runs,          \* the results of the runs of the CLI so far
    reported,      \* the "  - {error}" lines written to stdout
    status,        \* the CLI's exit status: <<>> while running, <<code>> after
    \* ---- Grid: input
    args,          \* the arguments of Grid(...): <<>> or <<n>>
    \* ---- Grid: program state
    gpc,           \* position in Grid(...) and after it
    grid_n,        \* self.n
    nn,            \* nn of __attrs_post_init__
    cols,          \* cols
    grid_data,     \* data
    grid_y,        \* self.y
    grid_x,        \* self.x
    diffLog        \* what the calls of diff() so far returned, in order

guardVars == <<argv, histExists, histLines, envCI, gitStatus, pc, managed,
               githubBase, refIdx, baseRef, fileIdx, violations, calls,
               isModLog, printed, exitCode>>

bundleVars == <<fileState, data, vpc, errors, bundleIdx, result, bundleLog,
                sectionLog, runs, reported, status>>

gridVars == <<args, gpc, grid_n, nn, cols, grid_data, grid_y, grid_x, diffLog>>

vars == <<guardVars, bundleVars, gridVars>>

----------------------------------------------------------------------------
(* Bounds of the model *)

MaxArgs == 2

\* longest requires / recommends list
MaxDeps == 2

\* how often the CLI is run on the one document
MaxRuns == 2

\* longest templates list of an example
MaxTemplates == 2

\* largest n passed to Grid
MaxN == 11

\* how often diff() is called on the one Grid
MaxDiffCalls == 2

----------------------------------------------------------------------------
(* Small helpers *)

RECURSIVE SeqsUpTo(_, _)
SeqsUpTo(S, n) ==
    IF n = 0 THEN {<<>>}
    ELSE LET shorter == SeqsUpTo(S, n - 1)
         IN  shorter \cup {Append(s, x) : s \in {t \in shorter : Len(t) = n - 1}, x \in S}

Range(s) == {s[k] : k \in 1..Len(s)}

\* Python truthiness of os.environ.get(...) for a value that is a non-empty thing
\* when set: None and the empty value are falsy.
Truthy(e, empty) == e # <<>> /\ e[1] # empty

----------------------------------------------------------------------------
(* Path and line handling *)

Whitespace == {" ", "\n", "\t"}

RECURSIVE LStrip(_)
LStrip(s) ==
    IF s # <<>> /\ Head(s) \in Whitespace THEN LStrip(Tail(s)) ELSE s

RECURSIVE RStrip(_)
RStrip(s) ==
    IF s # <<>> /\ s[Len(s)] \in Whitespace
    THEN RStrip(SubSeq(s, 1, Len(s) - 1)) ELSE s

\* str.strip()
Strip(s) == RStrip(LStrip(s))

\* str.startswith("#")
StartsWithHash(s) == s # <<>> /\ Head(s) = "#"

\* s.split("/")
RECURSIVE SplitSlash(_)
SplitSlash(s) ==
    IF \A k \in 1..Len(s) : s[k] # "/" THEN <<s>>
    ELSE LET k == CHOOSE j \in 1..Len(s) :
                      s[j] = "/" /\ \A h \in 1..(j - 1) : s[h] # "/"
         IN  <<SubSeq(s, 1, k - 1)>> \o SplitSlash(SubSeq(s, k + 1, Len(s)))

RECURSIVE DropEmptyAndDot(_)
DropEmptyAndDot(parts) ==
    IF parts = <<>> THEN <<>>
    ELSE IF Head(parts) = <<>> \/ Head(parts) = <<".">>
         THEN DropEmptyAndDot(Tail(parts))
         ELSE <<Head(parts)>> \o DropEmptyAndDot(Tail(parts))

RECURSIVE JoinSlash(_)
JoinSlash(parts) ==
    IF parts = <<>> THEN <<>>
    ELSE IF Len(parts) = 1 THEN Head(parts)
         ELSE Head(parts) \o <<"/">> \o JoinSlash(Tail(parts))

RECURSIVE LeadingSlashes(_)
LeadingSlashes(s) ==
    IF s # <<>> /\ Head(s) = "/" THEN 1 + LeadingSlashes(Tail(s)) ELSE 0

\* str(Path(p)) on POSIX: empty and "." components and repeated or trailing
\* slashes go away, ".." stays, exactly two leading slashes are kept, and the
\* empty path is ".".
Normalize(p) ==
    LET n    == LeadingSlashes(p)
        root == IF n = 2 THEN <<"/", "/">> ELSE IF n >= 1 THEN <<"/">> ELSE <<>>
        body == root \o JoinSlash(DropEmptyAndDot(SplitSlash(p)))
    IN  IF body = <<>> THEN <<".">> ELSE body

\* A mutant of LoadManagedFiles: the lines are taken as read, unstripped.
LoadManagedFilesUnstripped(exists, lines) ==
    IF ~exists THEN {}
    ELSE {lines[k] :
            k \in {j \in 1..Len(lines) :
                     Strip(lines[j]) # <<>> /\ ~StartsWithHash(Strip(lines[j]))}}

\* load_managed_files(): the set of stripped lines that are neither empty nor
\* comments; the empty set when the history file does not exist.
LoadManagedFiles(exists, lines) ==
    IF ~exists THEN {}
    ELSE {Strip(lines[k]) :
            k \in {j \in 1..Len(lines) :
                     Strip(lines[j]) # <<>> /\ ~StartsWithHash(Strip(lines[j]))}}

----------------------------------------------------------------------------
(* The inputs the model explores *)

PA    == <<"a">>
PDotA == <<".", "/", "a">>
PB    == <<"b">>

\* candidate paths a hook may pass
ArgPaths == {PA, PDotA, PB}

\* lines a history file may hold (each as read, with its newline)
LineA       == <<"a", "\n">>
LineDotA    == <<".", "/", "a", "\n">>
LineSpaceB  == <<" ", "b", " ", "\n">>
LineComment == <<"#", "a", "\n">>
LineBlank   == <<" ", "\n">>

History(exists, lines) == [exists |-> exists, lines |-> lines]

\* states of .rhiza/history: absent, empty, nothing but ignored lines, and
\* files with one or two entries, spelled normalized or not, padded or not
Histories ==
    { History(FALSE, <<>>),
      History(TRUE, <<>>),
      History(TRUE, <<LineComment, LineBlank>>),
      History(TRUE, <<LineA>>),
      History(TRUE, <<LineDotA>>),
      History(TRUE, <<LineComment, LineSpaceB>>),
      History(TRUE, <<LineA, LineSpaceB>>),
      History(TRUE, <<LineSpaceB, LineBlank, LineDotA>>) }

\* values of the CI variable
CIValues == {<<>>, <<"">>, <<"true">>}

\* values of GITHUB_BASE_REF (refs are sequences of path components)
GithubBaseValues == {<<>>, <<<<>>>>, <<<<"dev">>>>}

\* What one subprocess.run of git status / git diff can do.
Reported  == [raised |-> FALSE, returncode |-> 0,   stdout |-> TRUE]
Quiet     == [raised |-> FALSE, returncode |-> 0,   stdout |-> FALSE]
ExitError == [raised |-> FALSE, returncode |-> 128, stdout |-> FALSE]
Raised    == [raised |-> TRUE,  returncode |-> 0,   stdout |-> FALSE]

RunOutcomes == {Reported, Quiet, ExitError, Raised}

\* git names a file whatever way the path to it is spelled
FileOf(p) == Normalize(p)

----------------------------------------------------------------------------
(* BundleValidator: parsed YAML values                                      *)
(*                                                                          *)
(* A value carries its Python type t and, for a container, the set `has`   *)
(* of the strings x for which `x in value` is true (a dict's keys, a       *)
(* list's elements, a string's substrings).  A mapping whose order matters *)
(* is the sequence `items` of its [name, cfg] entries in document order.   *)
(* A message is the sequence of the pieces its f-string joins.             *)

Digits == <<"0", "1", "2", "3", "4", "5", "6", "7", "8", "9">>

\* str(n) for a one-digit n
IntStr(n) == Digits[n + 1]

\* `x in v`: "TypeError" for a value that is no container
Contains(v, x) ==
    IF v.t \in {"dict", "list", "str"}
    THEN (IF x \in v.has THEN "yes" ELSE "no")
    ELSE "TypeError"

Entry(name, cfg) == [name |-> name, cfg |-> cfg]

Names(items) == {items[k].name : k \in 1..Len(items)}

ListOf(items) == [t |-> "list", items |-> items]

NotAList == [t |-> "str", items |-> <<>>]

\* a bundle's config
Config(t, has, files, requires, recommends) ==
    [t |-> t, has |-> has, files |-> files,
     requires |-> requires, recommends |-> recommends]

\* an example's config
ExampleConfig(t, has, templates) == [t |-> t, has |-> has, templates |-> templates]

\* the value of `bundles` or of `examples`
Mapping(items) == [t |-> "dict", items |-> items]

NotAMapping(t) == [t |-> t, items |-> <<>>]

\* the value of `metadata`; total_bundles is [t, n]: the int n or the string "n"
Metadata(t, has, total) == [t |-> t, has |-> has, total_bundles |-> total]

\* the top-level value
Document(t, has, bundles, examples, metadata) ==
    [t |-> t, has |-> has, bundles |-> bundles,
     examples |-> examples, metadata |-> metadata]

\* what a function that may raise gives back
Returns(errs) == [raised |-> "", errors |-> errs]

Raises(exc) == [raised |-> exc, errors |-> <<>>]

----------------------------------------------------------------------------
(* BundleValidator: the checks *)

\* _load_yaml_file: (success, errors) for a file that is missing, is not YAML
\* or parses to None
LoadYamlFile(state) ==
    CASE state = "missing" ->
           [ok |-> FALSE, errors |-> <<<<"Template bundles file not found: ", "path">>>>]
      [] state = "invalid" ->
           [ok |-> FALSE, errors |-> <<<<"Invalid YAML: ", "e">>>>]
      [] state = "empty" ->
           [ok |-> FALSE, errors |-> <<<<"Template bundles file is empty">>>>]
      [] OTHER -> [ok |-> TRUE, errors |-> <<>>]

\* the orders in which `for field in {"version", "bundles"}` may run: a set of
\* strings iterates in the order of the process's string hashes
FieldOrders == {<<"version", "bundles">>, <<"bundles", "version">>}

RECURSIVE MissingFields(_, _)
MissingFields(d, order) ==
    IF order = <<>> THEN <<>>
    ELSE (IF Contains(d, Head(order)) = "no"
          THEN <<<<"Missing required field: ", Head(order)>>>> ELSE <<>>)
         \o MissingFields(d, Tail(order))

\* _validate_top_level_fields
ValidateTopLevelFields(d, order) ==
    IF Contains(d, "version") = "TypeError"
    THEN Raises("TypeError")
    ELSE Returns(MissingFields(d, order))

\* A mutant of DependencyErrors: a name is reported once however often it is listed.
RECURSIVE DependencyErrorsOnce(_, _, _, _)
DependencyErrorsOnce(bundle_name, verb, deps, bundle_names) ==
    IF deps = <<>> THEN <<>>
    ELSE (IF Head(deps) \notin bundle_names
             /\ \A k \in 2..Len(deps) : deps[k] # Head(deps)
          THEN <<<<"Bundle '", bundle_name, "' ", verb,
                   " non-existent bundle '", Head(deps), "'">>>>
          ELSE <<>>)
         \o DependencyErrorsOnce(bundle_name, verb, Tail(deps), bundle_names)

\* the loop `for dep in bundle_config[...]` of _validate_bundle_structure
RECURSIVE DependencyErrors(_, _, _, _)
DependencyErrors(bundle_name, verb, deps, bundle_names) ==
    IF deps = <<>> THEN <<>>
    ELSE (IF Head(deps) \notin bundle_names
          THEN <<<<"Bundle '", bundle_name, "' ", verb,
                   " non-existent bundle '", Head(deps), "'">>>>
          ELSE <<>>)
         \o DependencyErrors(bundle_name, verb, Tail(deps), bundle_names)

\* A mutant of ValidateBundleStructure: a bundle that lists itself is reported
\* as listing a non-existent bundle.
ValidateBundleStructureNoSelfReference(bundle_name, bundle_config, bundle_names) ==
    IF bundle_config.t # "dict"
    THEN <<<<"Bundle '", bundle_name, "' must be a dictionary">>>>
    ELSE
      (IF "description" \notin bundle_config.has
       THEN <<<<"Bundle '", bundle_name, "' missing 'description'">>>> ELSE <<>>)
      \o
      (IF "files" \notin bundle_config.has
       THEN <<<<"Bundle '", bundle_name, "' missing 'files'">>>>
       ELSE IF bundle_config.files # "list"
            THEN <<<<"Bundle '", bundle_name, "' 'files' must be a list">>>>
            ELSE <<>>)
      \o
      (IF "requires" \in bundle_config.has
       THEN IF bundle_config.requires.t # "list"
            THEN <<<<"Bundle '", bundle_name, "' 'requires' must be a list">>>>
            ELSE DependencyErrors(bundle_name, "requires",
                                  bundle_config.requires.items,
                                  bundle_names \ {bundle_name})
       ELSE <<>>)
      \o
      (IF "recommends" \in bundle_config.has
       THEN IF bundle_config.recommends.t # "list"
            THEN <<<<"Bundle '", bundle_name, "' 'recommends' must be a list">>>>
            ELSE DependencyErrors(bundle_name, "recommends",
                                  bundle_config.recommends.items,
                                  bundle_names \ {bundle_name})
       ELSE <<>>)

\* _validate_bundle_structure
ValidateBundleStructure(bundle_name, bundle_config, bundle_names) ==
    IF bundle_config.t # "dict"
    THEN <<<<"Bundle '", bundle_name, "' must be a dictionary">>>>
    ELSE
      (IF "description" \notin bundle_config.has
       THEN <<<<"Bundle '", bundle_name, "' missing 'description'">>>> ELSE <<>>)
      \o
      (IF "files" \notin bundle_config.has
       THEN <<<<"Bundle '", bundle_name, "' missing 'files'">>>>
       ELSE IF bundle_config.files # "list"
            THEN <<<<"Bundle '", bundle_name, "' 'files' must be a list">>>>
            ELSE <<>>)
      \o
      (IF "requires" \in bundle_config.has
       THEN IF bundle_config.requires.t # "list"
            THEN <<<<"Bundle '", bundle_name, "' 'requires' must be a list">>>>
            ELSE DependencyErrors(bundle_name, "requires",
                                  bundle_config.requires.items, bundle_names)
       ELSE <<>>)
      \o
      (IF "recommends" \in bundle_config.has
       THEN IF bundle_config.recommends.t # "list"
            THEN <<<<"Bundle '", bundle_name, "' 'recommends' must be a list">>>>
            ELSE DependencyErrors(bundle_name, "recommends",
                                  bundle_config.recommends.items, bundle_names)
       ELSE <<>>)

\* A mutant of TemplateErrors: "core" is looked up like any other name.
RECURSIVE TemplateErrorsCoreChecked(_, _, _)
TemplateErrorsCoreChecked(example_name, templates, bundle_names) ==
    IF templates = <<>> THEN <<>>
    ELSE (IF Head(templates) \notin bundle_names
          THEN <<<<"Example '", example_name, "' references non-existent bundle '",
                   Head(templates), "'">>>>
          ELSE <<>>)
         \o TemplateErrorsCoreChecked(example_name, Tail(templates), bundle_names)

\* the loop `for template in example_config["templates"]` of _validate_examples
RECURSIVE TemplateErrors(_, _, _)
TemplateErrors(example_name, templates, bundle_names) ==
    IF templates = <<>> THEN <<>>
    ELSE (IF Head(templates) # "core" /\ Head(templates) \notin bundle_names
          THEN <<<<"Example '", example_name, "' references non-existent bundle '",
                   Head(templates), "'">>>>
          ELSE <<>>)
         \o TemplateErrors(example_name, Tail(templates), bundle_names)

\* one turn of _validate_examples' loop: `"templates" in example_config` is a
\* TypeError for None or a number; example_config["templates"] is a TypeError
\* for a list or a string that contains "templates"
ExampleErrors(example_name, example_config, bundle_names) ==
    CASE Contains(example_config, "templates") = "TypeError" -> Raises("TypeError")
      [] Contains(example_config, "templates") = "no" -> Returns(<<>>)
      [] OTHER ->
           IF example_config.t # "dict" THEN Raises("TypeError")
           ELSE IF example_config.templates.t # "list"
                THEN Returns(<<<<"Example '", example_name,
                                 "' 'templates' must be a list">>>>)
                ELSE Returns(TemplateErrors(example_name,
                                            example_config.templates.items,
                                            bundle_names))

RECURSIVE ExamplesLoop(_, _)
ExamplesLoop(items, bundle_names) ==
    IF items = <<>> THEN Returns(<<>>)
    ELSE LET first == ExampleErrors(Head(items).name, Head(items).cfg, bundle_names)
             rest  == ExamplesLoop(Tail(items), bundle_names)
         IN  IF first.raised # "" THEN first
             ELSE IF rest.raised # "" THEN rest
                  ELSE Returns(first.errors \o rest.errors)

\* _validate_examples
ValidateExamples(examples, bundle_names) ==
    IF examples.t # "dict"
    THEN Returns(<<<<"'examples' must be a dictionary">>>>)
    ELSE ExamplesLoop(examples.items, bundle_names)

\* A mutant of ValidateMetadata: only a declared count above the actual one is
\* reported.
ValidateMetadataOnlyWhenMore(metadata, bundles) ==
    CASE Contains(metadata, "total_bundles") = "TypeError" -> Raises("TypeError")
      [] Contains(metadata, "total_bundles") = "no" -> Returns(<<>>)
      [] OTHER ->
           IF metadata.t # "dict" THEN Raises("TypeError")
           ELSE LET expected_count == Len(bundles.items)
                    actual_count   == metadata.total_bundles
                IN  IF actual_count.t = "int" /\ actual_count.n <= expected_count
                    THEN Returns(<<>>)
                    ELSE Returns(<<<<"Metadata 'total_bundles' (",
                                     IntStr(actual_count.n),
                                     ") doesn't match actual bundle count (",
                                     IntStr(expected_count), ")">>>>)

\* _validate_metadata: `"total_bundles" in metadata` is a TypeError for None
\* or a number, metadata["total_bundles"] for a list or a string
ValidateMetadata(metadata, bundles) ==
    CASE Contains(metadata, "total_bundles") = "TypeError" -> Raises("TypeError")
      [] Contains(metadata, "total_bundles") = "no" -> Returns(<<>>)
      [] OTHER ->
           IF metadata.t # "dict" THEN Raises("TypeError")
           ELSE LET expected_count == Len(bundles.items)
                    actual_count   == metadata.total_bundles
                IN  IF actual_count.t = "int" /\ actual_count.n = expected_count
                    THEN Returns(<<>>)
                    ELSE Returns(<<<<"Metadata 'total_bundles' (",
                                     IntStr(actual_count.n),
                                     ") doesn't match actual bundle count (",
                                     IntStr(expected_count), ")">>>>)

\* A mutant of FullResult: the run always counts as a success.
FullResultAlwaysOk(errs) == [kind |-> "returned", ok |-> TRUE, errors |-> errs]

\* `return len(errors) == 0, errors`
FullResult(errs) == [kind |-> "returned", ok |-> Len(errs) = 0, errors |-> errs]

\* `return False, <errors>`
Failure(errs) == [kind |-> "returned", ok |-> FALSE, errors |-> errs]

\* an exception leaving validate_template_bundles
Exception(exc) == [kind |-> exc, ok |-> FALSE, errors |-> <<>>]

NoResult == [kind |-> "none", ok |-> FALSE, errors |-> <<>>]

----------------------------------------------------------------------------
(* BundleValidator: the documents the model explores *)

Absent == {}

IntValue(n) == [t |-> "int", n |-> n]

StrValue(n) == [t |-> "str", n |-> n]

CfgOk == Config("dict", {"description", "files"}, "list", NotAList, NotAList)

CfgNone == Config("none", {}, "list", NotAList, NotAList)

CfgBad == Config("dict", {"files"}, "str", NotAList, NotAList)

CfgDangling ==
    Config("dict", {"description", "files", "requires"}, "list",
           ListOf(<<"missing">>), NotAList)

CfgRequiresCore ==
    Config("dict", {"description", "files", "requires"}, "list",
           ListOf(<<"core">>), NotAList)

CoarseConfigs == {CfgOk, CfgNone, CfgBad, CfgDangling, CfgRequiresCore}

BundleNames == {"core", "extra"}

CoarseBundles ==
    {Mapping(<<>>), NotAMapping("list"), NotAMapping("none")}
    \cup {Mapping(<<Entry(n, c)>>) : n \in BundleNames, c \in CoarseConfigs}
    \cup {Mapping(<<Entry(n[1], c1), Entry(n[2], c2)>>) :
            n \in {<<"core", "extra">>, <<"extra", "core">>},
            c1 \in CoarseConfigs, c2 \in CoarseConfigs}

Templates(l) == ExampleConfig("dict", {"templates"}, ListOf(l))

CoarseExamples ==
    { NotAMapping("list"),
      Mapping(<<>>),
      Mapping(<<Entry("demo", Templates(<<"core", "extra">>))>>),
      Mapping(<<Entry("demo", ExampleConfig("dict", {"templates"}, NotAList)),
                Entry("other", Templates(<<"missing">>))>>),
      Mapping(<<Entry("demo", Templates(<<"missing">>)),
                Entry("other", ExampleConfig("none", {}, NotAList))>>) }

CoarseMetadata ==
    { Metadata("dict", {}, IntValue(0)),
      Metadata("dict", {"total_bundles"}, IntValue(0)),
      Metadata("dict", {"total_bundles"}, IntValue(1)),
      Metadata("dict", {"total_bundles"}, IntValue(2)),
      Metadata("dict", {"total_bundles"}, IntValue(5)),
      Metadata("dict", {"total_bundles"}, StrValue(2)),
      Metadata("none", {}, IntValue(0)),
      Metadata("str", {"total_bundles"}, IntValue(0)) }

NoExamples == NotAMapping("none")

NoMetadata == Metadata("none", {}, IntValue(0))

\* documents with both required fields: every combination of the bundles,
\* examples and metadata above, each of the last two present or not
DocsComplete ==
    {Document("dict", {"version", "bundles"} \cup e.key \cup m.key, b, e.v, m.v) :
       b \in CoarseBundles,
       e \in {[key |-> Absent, v |-> NoExamples]}
             \cup {[key |-> {"examples"}, v |-> x] : x \in CoarseExamples},
       m \in {[key |-> Absent, v |-> NoMetadata]}
             \cup {[key |-> {"metadata"}, v |-> x] : x \in CoarseMetadata}}

\* documents that lack a required field and are wrong further down too
DocsTopLevelFails ==
    {Document("dict", has \cup {"metadata"}, Mapping(<<Entry("extra", CfgDangling)>>),
              NoExamples, Metadata("dict", {"total_bundles"}, IntValue(5))) :
       has \in {{}, {"version"}, {"bundles"}}}

\* documents whose top-level value is no mapping
DocsNotAMapping ==
    { Document("list", {}, Mapping(<<>>), NoExamples, NoMetadata),
      Document("list", {"version", "bundles"}, Mapping(<<>>), NoExamples, NoMetadata),
      Document("str", {"version", "bundles"}, Mapping(<<>>), NoExamples, NoMetadata),
      Document("int", {}, Mapping(<<>>), NoExamples, NoMetadata) }

DepNames == {"core", "extra", "missing"}

DepValues == {NotAList} \cup {ListOf(l) : l \in SeqsUpTo(DepNames, MaxDeps)}

RichConfigs ==
    {Config("dict", has, files, requires, recommends) :
       has \in SUBSET {"description", "files", "requires", "recommends"},
       files \in {"list", "str"},
       requires \in DepValues,
       recommends \in DepValues}

\* a valid bundle core beside a bundle extra of every shape
DocsOneBundleVaried ==
    {Document("dict", {"version", "bundles"},
              Mapping(<<Entry("core", CfgOk), Entry("extra", c)>>),
              NoExamples, NoMetadata) :
       c \in {r \in RichConfigs :
                /\ "files" \notin r.has => r.files = "list"
                /\ "requires" \notin r.has => r.requires = NotAList
                /\ "recommends" \notin r.has => r.recommends = NotAList}}

TemplateValues == {ListOf(l) : l \in SeqsUpTo(DepNames, MaxTemplates)}

OtherExamples ==
    { Templates(<<"missing">>),
      ExampleConfig("dict", {}, NotAList),
      ExampleConfig("dict", {"templates"}, NotAList),
      ExampleConfig("str", {}, NotAList) }

\* an example demo with every templates list beside an example of another
\* shape, over no bundle, the bundle extra alone, and both bundles
DocsExamplesVaried ==
    {Document("dict", {"version", "bundles", "examples"}, b,
              Mapping(<<Entry("demo", ExampleConfig("dict", {"templates"}, t)),
                        Entry("other", o)>>),
              NoMetadata) :
       b \in {Mapping(<<>>),
              Mapping(<<Entry("extra", CfgOk)>>),
              Mapping(<<Entry("core", CfgOk), Entry("extra", CfgOk)>>)},
       t \in TemplateValues,
       o \in OtherExamples}

Documents ==
    DocsComplete \cup DocsTopLevelFails \cup DocsNotAMapping \cup DocsOneBundleVaried
    \cup DocsExamplesVaried

NoDocument == Document("none", {}, Mapping(<<>>), NoExamples, NoMetadata)

----------------------------------------------------------------------------
(* Grid: arrays and frames                                                  *)
(*                                                                          *)
(* An array is a sequence (of rows, for a matrix); positions count from 1  *)
(* where numpy counts from 0.  A frame holds its values and its row and    *)
(* column labels; a label is the sequence of its characters.               *)

\* str(k) for k >= 0
RECURSIVE Decimal(_)
Decimal(k) ==
    IF k < 10 THEN <<Digits[k + 1]>>
    ELSE Decimal(k \div 10) \o <<Digits[(k % 10) + 1]>>

\* np.arange(m): 0, 1, ..., m - 1
Arange(m) == [k \in 1..m |-> k - 1]

\* np.tile(row, (reps, 1)): the row, reps times over
Tile(row, reps) == [i \in 1..reps |-> row]

\* pd.DataFrame(values, index=index, columns=columns)
DataFrame(values, index, columns) ==
    [values |-> values, index |-> index, columns |-> columns]

NoFrame == DataFrame(<<>>, <<>>, <<>>)

\* A mutant of TransposeFrame: the frame is handed back as it is.
TransposeFrameNot(df) == df

\* df.T
TransposeFrame(df) ==
    DataFrame([i \in 1..Len(df.columns) |->
                 [j \in 1..Len(df.index) |-> df.values[j][i]]],
              df.columns, df.index)

\* where a label stands among labels that are all different
Position(labels, l) == CHOOSE k \in 1..Len(labels) : labels[k] = l

\* df.loc[r, c]
Loc(df, r, c) == df.values[Position(df.index, r)][Position(df.columns, c)]

\* a - b for frames with the same row labels and the same column labels, as
\* those of a Grid are: each cell of a minus the cell of b with the same
\* labels, under the labels of a
Subtract(a, b) ==
    DataFrame([i \in 1..Len(a.index) |->
                 [j \in 1..Len(a.columns) |->
                    Loc(a, a.index[i], a.columns[j]) - Loc(b, a.index[i], a.columns[j])]],
              a.index, a.columns)

\* the arguments Grid is called with: none (n defaults to 10) or one n >= 0
GridArgs == {<<>>} \cup {<<k>> : k \in 0..MaxN}

\* n: int = attrs.field(default=10)
FieldN(a) == IF a = <<>> THEN 10 ELSE a[1]

----------------------------------------------------------------------------
(* Each part at rest, while another one runs *)

GuardIdle ==
    /\ argv = <<>>
    /\ histExists = FALSE
    /\ histLines = <<>>
    /\ envCI = <<>>
    /\ gitStatus = <<>>
    /\ pc = "idle"
    /\ managed = {}
    /\ githubBase = <<>>
    /\ refIdx = 1
    /\ baseRef = <<>>
    /\ fileIdx = 1
    /\ violations = <<>>
    /\ calls = <<>>
    /\ isModLog = <<>>
    /\ printed = <<>>
    /\ exitCode = <<>>

BundleIdle ==
    /\ fileState = "missing"
    /\ data = NoDocument
    /\ vpc = "idle"
    /\ errors = <<>>
    /\ bundleIdx = 1
    /\ result = NoResult
    /\ bundleLog = <<>>
    /\ sectionLog = <<>>
    /\ runs = <<>>
    /\ reported = <<>>
    /\ status = <<>>

GridIdle ==
    /\ args = <<>>
    /\ gpc = "idle"
    /\ grid_n = 0
    /\ nn = <<>>
    /\ cols = <<>>
    /\ grid_data = <<>>
    /\ grid_y = NoFrame
    /\ grid_x = NoFrame
    /\ diffLog = <<>>

----------------------------------------------------------------------------
(* ManagedFileGuard: get_base_ref, is_modified *)

ConventionalRefs ==
    << <<"origin", "main">>, <<"origin", "master">>, <<"main">>, <<"master">> >>

\* A mutant of Candidates: the conventional names come before the CI-provided one.
CandidatesConventionalFirst(gb) ==
    IF Truthy(gb, <<>>)
    THEN ConventionalRefs \o <<gb[1], <<"origin">> \o gb[1]>>
    ELSE ConventionalRefs

\* get_base_ref's list of names to try: the two inserts at position 0 put
\* GITHUB_BASE_REF first and origin/GITHUB_BASE_REF second.
Candidates(gb) ==
    IF Truthy(gb, <<>>)
    THEN <<gb[1], <<"origin">> \o gb[1]>> \o ConventionalRefs
    ELSE ConventionalRefs

Call(cmd, ref, path, res) == [cmd |-> cmd, ref |-> ref, path |-> path, res |-> res]

\* A mutant of RunReports: a failed query counts as a report (fail-closed).
RunReportsOrFails(res) ==
    res.raised \/ res.returncode # 0 \/ res.stdout

\* `res.returncode == 0 and res.stdout.strip()`, False when subprocess.run raised
RunReports(res) ==
    ~res.raised /\ res.returncode = 0 /\ res.stdout

\* A mutant of ChecksBase: the comparison with the base is made outside CI too.
ChecksBaseAlways(base, ci) == base # <<>>

\* `if base_ref and os.environ.get("CI")`
ChecksBase(base, ci) == base # <<>> /\ Truthy(ci, "")

\* is_modified's result, given what its status query did and what its diff
\* query does if issued
IsModified(st, base, ci, df) ==
    RunReports(st) \/ (ChecksBase(base, ci) /\ RunReports(df))

\* the queries one is_modified call issues, in order
IsModifiedCalls(path, st, base, ci, df) ==
    <<Call("status", <<>>, path, st)>>
    \o (IF ~RunReports(st) /\ ChecksBase(base, ci)
        THEN <<Call("diff", base[1], path, df)>> ELSE <<>>)

----------------------------------------------------------------------------
(* ManagedFileGuard: main *)

\* `if not changed_files`
NoChangedFiles(changed) == changed = <<>>

\* A mutant of NoManagedFiles: the empty registry is not short-circuited.
NoManagedFilesIgnored(m) == FALSE

\* `if not managed_files`
NoManagedFiles(m) == m = {}

\* A mutant of IsManaged: every candidate counts as managed.
IsManagedAlways(np, m) == TRUE

\* `normalized_path in managed_files`
IsManaged(np, m) == np \in m

GuardInit ==
    /\ BundleIdle
    /\ GridIdle
    /\ argv \in SeqsUpTo(ArgPaths, MaxArgs)
    /\ \E h \in Histories : histExists = h.exists /\ histLines = h.lines
    /\ envCI \in CIValues
    /\ gitStatus \in [{FileOf(p) : p \in Range(argv)} -> RunOutcomes]
    /\ pc = "start"
    /\ managed = {}
    /\ githubBase = <<>>
    /\ refIdx = 1
    /\ baseRef = <<>>
    /\ fileIdx = 1
    /\ violations = <<>>
    /\ calls = <<>>
    /\ isModLog = <<>>
    /\ printed = <<>>
    /\ exitCode = <<>>

guardInputs == <<argv, histExists, histLines, envCI, gitStatus>>

\* main() up to the call of get_base_ref
MainStart ==
    /\ pc = "start"
    /\ IF NoChangedFiles(argv)
       THEN /\ pc' = "done"
            /\ exitCode' = <<0>>
            /\ UNCHANGED <<managed, githubBase>>
       ELSE LET m == LoadManagedFiles(histExists, histLines)
            IN  /\ managed' = m
                /\ IF NoManagedFiles(m)
                   THEN /\ pc' = "done"
                        /\ exitCode' = <<0>>
                        /\ UNCHANGED githubBase
                   ELSE /\ pc' = "get_base_ref"
                        /\ githubBase' \in GithubBaseValues
                        /\ UNCHANGED exitCode
    /\ UNCHANGED <<guardInputs, refIdx, baseRef, fileIdx, violations, calls,
                   isModLog, printed>>
    /\ UNCHANGED bundleVars
    /\ UNCHANGED gridVars

\* one turn of get_base_ref's loop, or its `return None`.  git is taken to
\* start: with check=True a run either exits 0 or raises CalledProcessError.
GetBaseRefTry ==
    /\ pc = "get_base_ref"
    /\ LET cands == Candidates(githubBase)
       IN  IF refIdx > Len(cands)
           THEN /\ baseRef' = <<>>
                /\ pc' = "loop"
                /\ UNCHANGED <<refIdx, calls>>
           ELSE \E resolves \in BOOLEAN :
                  /\ calls' = Append(calls,
                        Call("rev-parse", cands[refIdx], <<>>,
                             IF resolves THEN Quiet ELSE ExitError))
                  /\ IF resolves
                     THEN /\ baseRef' = <<cands[refIdx]>>
                          /\ pc' = "loop"
                          /\ UNCHANGED refIdx
                     ELSE /\ refIdx' = refIdx + 1
                          /\ UNCHANGED <<baseRef, pc>>
    /\ UNCHANGED <<guardInputs, managed, githubBase, fileIdx, violations,
                   isModLog, printed, exitCode>>
    /\ UNCHANGED bundleVars
    /\ UNCHANGED gridVars

\* one turn of main's loop over changed_files
CheckFile ==
    /\ pc = "loop"
    /\ fileIdx <= Len(argv)
    /\ LET file_path       == argv[fileIdx]
           normalized_path == Normalize(file_path)
           st              == gitStatus[FileOf(file_path)]
       IN  IF IsManaged(normalized_path, managed)
           THEN \E df \in (IF ~RunReports(st) /\ ChecksBase(baseRef, envCI)
                           THEN RunOutcomes ELSE {Quiet}) :
                  /\ calls' = calls \o IsModifiedCalls(file_path, st, baseRef, envCI, df)
                  /\ isModLog' = Append(isModLog,
                        [file_path |-> file_path,
                         base_ref  |-> baseRef,
                         queries   |-> IsModifiedCalls(file_path, st, baseRef, envCI, df),
                         result    |-> IsModified(st, baseRef, envCI, df)])
                  /\ violations' =
                        IF IsModified(st, baseRef, envCI, df)
                        THEN Append(violations, normalized_path)
                        ELSE violations
           ELSE UNCHANGED <<calls, isModLog, violations>>
    /\ fileIdx' = fileIdx + 1
    /\ UNCHANGED <<guardInputs, pc, managed, githubBase, refIdx, baseRef,
                   printed, exitCode>>
    /\ UNCHANGED bundleVars
    /\ UNCHANGED gridVars

\* the end of main: the report and sys.exit
Report ==
    /\ pc = "loop"
    /\ fileIdx > Len(argv)
    /\ pc' = "done"
    /\ IF violations # <<>>
       THEN /\ printed' = violations
            /\ exitCode' = <<1>>
       ELSE /\ exitCode' = <<0>>
            /\ UNCHANGED printed
    /\ UNCHANGED <<guardInputs, managed, githubBase, refIdx, baseRef, fileIdx,
                   violations, calls, isModLog>>
    /\ UNCHANGED bundleVars
    /\ UNCHANGED gridVars

GuardNext == MainStart \/ GetBaseRefTry \/ CheckFile \/ Report

SpecGuard == GuardInit /\ [][GuardNext]_vars

----------------------------------------------------------------------------
(* BundleValidator: main and validate_template_bundles *)

bundleInputs == <<fileState, data>>

\* one call of _validate_examples(examples, bundle_names) or of
\* _validate_metadata(metadata, bundles): its arguments and what it gave
SectionCall(section, value, against, found) ==
    [section |-> section, value |-> value, against |-> against, found |-> found]

\* main() up to validate_template_bundles' call of _load_yaml_file
LoadYaml ==
    /\ vpc = "start"
    /\ LET loaded == LoadYamlFile(fileState)
       IN  IF ~loaded.ok
           THEN /\ result' = Failure(loaded.errors)
                /\ vpc' = "returned"
           ELSE /\ vpc' = "top"
                /\ UNCHANGED result
    /\ UNCHANGED <<bundleInputs, errors, bundleIdx, bundleLog, sectionLog, runs, reported, status>>
    /\ UNCHANGED guardVars
    /\ UNCHANGED gridVars

\* the top-level check and the look at `bundles`
ValidateTop ==
    /\ vpc = "top"
    /\ \E order \in FieldOrders :
         LET top == ValidateTopLevelFields(data, order)
         IN  CASE top.raised # "" ->
                    /\ result' = Exception(top.raised)
                    /\ vpc' = "raised"
                    /\ UNCHANGED errors
               [] top.raised = "" /\ top.errors # <<>> ->
                    /\ result' = Failure(top.errors)
                    /\ vpc' = "returned"
                    /\ errors' = top.errors
               [] top.raised = "" /\ top.errors = <<>> /\ data.t # "dict" ->
                    \* data.get on a list or a string
                    /\ result' = Exception("AttributeError")
                    /\ vpc' = "raised"
                    /\ errors' = top.errors
               [] OTHER ->
                    IF data.bundles.t # "dict"
                    THEN /\ result' = Failure(<<<<"'bundles' must be a dictionary">>>>)
                         /\ vpc' = "returned"
                         /\ errors' = top.errors
                    ELSE /\ vpc' = "bundles"
                         /\ errors' = top.errors
                         /\ UNCHANGED result
    /\ bundleIdx' = 1
    /\ UNCHANGED <<bundleInputs, bundleLog, sectionLog, runs, reported, status>>
    /\ UNCHANGED guardVars
    /\ UNCHANGED gridVars

\* one turn of the loop over bundles.items()
ValidateBundle ==
    /\ vpc = "bundles"
    /\ bundleIdx <= Len(data.bundles.items)
    /\ LET bundle_name   == data.bundles.items[bundleIdx].name
           bundle_config == data.bundles.items[bundleIdx].cfg
           bundle_names  == Names(data.bundles.items)
           found == ValidateBundleStructure(bundle_name, bundle_config, bundle_names)
       IN  /\ errors' = errors \o found
           /\ bundleLog' = Append(bundleLog,
                              [bundle_name   |-> bundle_name,
                               bundle_config |-> bundle_config,
                               bundle_names  |-> bundle_names,
                               errors        |-> found])
    /\ bundleIdx' = bundleIdx + 1
    /\ UNCHANGED <<bundleInputs, vpc, result, sectionLog, runs, reported, status>>
    /\ UNCHANGED guardVars
    /\ UNCHANGED gridVars

\* `if "examples" in data: errors.extend(_validate_examples(...))`
ValidateExamplesSection ==
    /\ vpc = "bundles"
    /\ bundleIdx > Len(data.bundles.items)
    /\ IF "examples" \in data.has
       THEN LET bundle_names == Names(data.bundles.items)
                found == ValidateExamples(data.examples, bundle_names)
            IN  /\ sectionLog' = Append(sectionLog,
                                    SectionCall("examples", data.examples,
                                                bundle_names, found))
                /\ IF found.raised # ""
                   THEN /\ result' = Exception(found.raised)
                        /\ vpc' = "raised"
                        /\ UNCHANGED errors
                   ELSE /\ errors' = errors \o found.errors
                        /\ vpc' = "metadata"
                        /\ UNCHANGED result
       ELSE /\ vpc' = "metadata"
            /\ UNCHANGED <<errors, result, sectionLog>>
    /\ UNCHANGED <<bundleInputs, bundleIdx, bundleLog, runs, reported, status>>
    /\ UNCHANGED guardVars
    /\ UNCHANGED gridVars

\* `if "metadata" in data: errors.extend(_validate_metadata(...))` and the return
ValidateMetadataSection ==
    /\ vpc = "metadata"
    /\ IF "metadata" \in data.has
       THEN LET found == ValidateMetadata(data.metadata, data.bundles)
            IN  /\ sectionLog' = Append(sectionLog,
                                    SectionCall("metadata", data.metadata,
                                                data.bundles, found))
                /\ IF found.raised # ""
                   THEN /\ result' = Exception(found.raised)
                        /\ vpc' = "raised"
                        /\ UNCHANGED errors
                   ELSE /\ errors' = errors \o found.errors
                        /\ result' = FullResult(errors \o found.errors)
                        /\ vpc' = "returned"
       ELSE /\ result' = FullResult(errors)
            /\ vpc' = "returned"
            /\ UNCHANGED <<errors, sectionLog>>
    /\ UNCHANGED <<bundleInputs, bundleIdx, bundleLog, runs, reported, status>>
    /\ UNCHANGED guardVars
    /\ UNCHANGED gridVars

\* main's return value passed to sys.exit; an uncaught exception ends the
\* interpreter with status 1
ExitStatus(res) == IF res.kind = "returned" /\ res.ok THEN 0 ELSE 1

\* the rest of main(): the report and the exit status
MainExit ==
    /\ vpc \in {"returned", "raised"}
    /\ vpc' = "exited"
    /\ status' = <<ExitStatus(result)>>
    /\ reported' = IF result.kind = "returned" /\ ~result.ok
                   THEN result.errors ELSE <<>>
    /\ runs' = Append(runs, result)
    /\ UNCHANGED <<bundleInputs, errors, bundleIdx, result, bundleLog, sectionLog>>
    /\ UNCHANGED guardVars
    /\ UNCHANGED gridVars

\* the CLI is started again on the unchanged file
RunAgain ==
    /\ vpc = "exited"
    /\ Len(runs) < MaxRuns
    /\ vpc' = "start"
    /\ errors' = <<>>
    /\ bundleIdx' = 1
    /\ result' = NoResult
    /\ bundleLog' = <<>>
    /\ sectionLog' = <<>>
    /\ reported' = <<>>
    /\ status' = <<>>
    /\ UNCHANGED <<bundleInputs, runs>>
    /\ UNCHANGED guardVars
    /\ UNCHANGED gridVars

----------------------------------------------------------------------------
(* BundleValidator: the specification *)

BundleInit ==
    /\ GuardIdle
    /\ GridIdle
    /\ \/ fileState \in {"missing", "invalid", "empty"} /\ data = NoDocument
       \/ fileState = "ok" /\ data \in Documents
    /\ vpc = "start"
    /\ errors = <<>>
    /\ bundleIdx = 1
    /\ result = NoResult
    /\ bundleLog = <<>>
    /\ sectionLog = <<>>
    /\ runs = <<>>
    /\ reported = <<>>
    /\ status = <<>>

BundleNext ==
    \/ LoadYaml
    \/ ValidateTop
    \/ ValidateBundle
    \/ ValidateExamplesSection
    \/ ValidateMetadataSection
    \/ MainExit
    \/ RunAgain

SpecBundle == BundleInit /\ [][BundleNext]_vars

----------------------------------------------------------------------------
(* Grid: construction and diff *)

GridInit ==
    /\ GuardIdle
    /\ BundleIdle
    /\ args \in GridArgs
    /\ gpc = "call"
    /\ grid_n = 0
    /\ nn = <<>>
    /\ cols = <<>>
    /\ grid_data = <<>>
    /\ grid_y = NoFrame
    /\ grid_x = NoFrame
    /\ diffLog = <<>>

\* the generated __init__: self.n is set, then __attrs_post_init__ is entered
AttrsInit ==
    /\ gpc = "call"
    /\ grid_n' = FieldN(args)
    /\ gpc' = "arange"
    /\ UNCHANGED <<args, nn, cols, grid_data, grid_y, grid_x, diffLog>>
    /\ UNCHANGED <<guardVars, bundleVars>>

\* nn = np.arange(self.n + 1)
MakeRange ==
    /\ gpc = "arange"
    /\ nn' = Arange(grid_n + 1)
    /\ gpc' = "cols"
    /\ UNCHANGED <<args, grid_n, cols, grid_data, grid_y, grid_x, diffLog>>
    /\ UNCHANGED <<guardVars, bundleVars>>

\* cols = [str(n) for n in nn]
MakeCols ==
    /\ gpc = "cols"
    /\ cols' = [k \in 1..Len(nn) |-> Decimal(nn[k])]
    /\ gpc' = "tile"
    /\ UNCHANGED <<args, grid_n, nn, grid_data, grid_y, grid_x, diffLog>>
    /\ UNCHANGED <<guardVars, bundleVars>>

\* data = np.tile(nn, (self.n + 1, 1))
MakeData ==
    /\ gpc = "tile"
    /\ grid_data' = Tile(nn, grid_n + 1)
    /\ gpc' = "frame"
    /\ UNCHANGED <<args, grid_n, nn, cols, grid_y, grid_x, diffLog>>
    /\ UNCHANGED <<guardVars, bundleVars>>

\* self.y = pd.DataFrame(data, index=cols, columns=cols)
MakeY ==
    /\ gpc = "frame"
    /\ grid_y' = DataFrame(grid_data, cols, cols)
    /\ gpc' = "transpose"
    /\ UNCHANGED <<args, grid_n, nn, cols, grid_data, grid_x, diffLog>>
    /\ UNCHANGED <<guardVars, bundleVars>>

\* self.x = self.y.T, and Grid(...) returns
MakeX ==
    /\ gpc = "transpose"
    /\ grid_x' = TransposeFrame(grid_y)
    /\ gpc' = "ready"
    /\ UNCHANGED <<args, grid_n, nn, cols, grid_data, grid_y, diffLog>>
    /\ UNCHANGED <<guardVars, bundleVars>>

\* one call of diff()
Diff ==
    /\ gpc = "ready"
    /\ Len(diffLog) < MaxDiffCalls
    /\ diffLog' = Append(diffLog, Subtract(grid_x, grid_y))
    /\ UNCHANGED <<args, gpc, grid_n, nn, cols, grid_data, grid_y, grid_x>>
    /\ UNCHANGED <<guardVars, bundleVars>>

GridNext == AttrsInit \/ MakeRange \/ MakeCols \/ MakeData \/ MakeY \/ MakeX \/ Diff

SpecGrid == GridInit /\ [][GridNext]_vars

----------------------------------------------------------------------------
(* ManagedFileGuard: the claims *)

Entries == LoadManagedFiles(histExists, histLines)

InCI == envCI \notin {<<>>, <<"">>}

QueryReports(q) == ~q.res.raised /\ q.res.returncode = 0 /\ q.res.stdout

QueryFailed(q) == q.res.raised \/ q.res.returncode # 0

IsRevParse(c) == c.cmd = "rev-parse"

RevParseCalls == SelectSeq(calls, IsRevParse)

\* C1 as stated: whenever the manifest lists P, the change-set is exactly P and
\* git status reports P, check ends with P as its one violation, printed, and
\* exit code 1.
C1_ListedModifiedIsViolation ==
    (/\ pc = "done"
     /\ Len(argv) = 1
     /\ argv[1] \in Entries
     /\ gitStatus[FileOf(argv[1])] = Reported)
    => (/\ violations = <<Normalize(argv[1])>>
        /\ printed = violations
        /\ exitCode = <<1>>)

\* C2: when no candidate names, after normalization, the file of a manifest
\* entry, check ends with no violation, nothing printed and exit code 0, and
\* never asks git status or git diff, whatever they would have answered.
C2_DisjointChangeSetPasses ==
    (/\ pc = "done"
     /\ \A k \in 1..Len(argv) :
          \A e \in Entries : Normalize(argv[k]) # Normalize(e))
    => (/\ violations = <<>>
        /\ printed = <<>>
        /\ exitCode = <<0>>
        /\ \A k \in 1..Len(calls) : calls[k].cmd = "rev-parse")

C2_Witness ==
    /\ pc = "done"
    /\ Len(argv) = MaxArgs
    /\ Entries # {}
    /\ \A k \in 1..Len(argv) :
         /\ \A e \in Entries : Normalize(argv[k]) # Normalize(e)
         /\ gitStatus[FileOf(argv[k])] = Reported
    /\ exitCode = <<0>>

\* C3: with an empty change-set or an empty registry (history file absent, or
\* holding only blank and comment lines) check goes from its start straight to
\* its end with exit code 0, and no git subprocess is ever run.
C3_ShortCircuit ==
    (argv = <<>> \/ ~histExists
       \/ \A k \in 1..Len(histLines) :
            Strip(histLines[k]) = <<>> \/ Head(Strip(histLines[k])) = "#")
    => (/\ calls = <<>>
        /\ pc \in {"start", "done"}
        /\ pc = "done" => (exitCode = <<0>> /\ violations = <<>> /\ printed = <<>>))

C3_Witness ==
    /\ pc = "done"
    /\ argv # <<>>
    /\ histExists
    /\ histLines # <<>>
    /\ \A k \in 1..Len(histLines) :
         Strip(histLines[k]) = <<>> \/ Head(Strip(histLines[k])) = "#"
    /\ gitStatus[FileOf(argv[1])] = Reported
    /\ exitCode = <<0>>
    /\ calls = <<>>

\* C6: every is_modified call asks git status about its path first; its result
\* is true exactly when that query reports the path or, with base_ref known and
\* CI set, the diff against base_ref reports it; with CI unset or base_ref
\* None no diff query is issued and the result is the status query's alone.
C6_IsModifiedMeaning ==
    \A n \in 1..Len(isModLog) :
      LET e     == isModLog[n]
          known == e.base_ref # <<>>
          diffs == {k \in 1..Len(e.queries) : e.queries[k].cmd = "diff"}
      IN  /\ e.queries[1].cmd = "status"
          /\ e.queries[1].path = e.file_path
          /\ \A k \in diffs :
               /\ k = 2
               /\ e.queries[k].path = e.file_path
               /\ e.queries[k].ref = e.base_ref[1]
          /\ e.result <=>
               \/ QueryReports(e.queries[1])
               \/ (known /\ InCI /\ \E k \in diffs : QueryReports(e.queries[k]))
          /\ (~InCI \/ ~known) =>
               (diffs = {} /\ (e.result <=> QueryReports(e.queries[1])))

C6_Witness ==
    \E n \in 1..Len(isModLog) :
      /\ isModLog[n].result
      /\ isModLog[n].queries[1].res = Quiet
      /\ Len(isModLog[n].queries) = 2
      /\ isModLog[n].queries[2].res = Reported
      /\ InCI

\* C7: a status query that fails (non-zero exit, or an exception) counts as
\* "not modified" and is_modified still goes on to the diff against base_ref
\* when base_ref is known and CI is set; a failing diff query counts as "not
\* modified" too; so is_modified is true only if one of its queries reported
\* the path, and only such a call adds a violation.
C7_FailOpen ==
    /\ \A n \in 1..Len(isModLog) :
         LET e == isModLog[n]
         IN  /\ QueryFailed(e.queries[1]) =>
                  /\ (e.base_ref # <<>> /\ InCI) =>
                        (Len(e.queries) = 2 /\ e.queries[2].cmd = "diff")
                  /\ e.result => (Len(e.queries) = 2 /\ QueryReports(e.queries[2]))
             /\ (Len(e.queries) = 2 /\ QueryFailed(e.queries[2])) => ~e.result
             /\ e.result => \E k \in 1..Len(e.queries) : QueryReports(e.queries[k])
    /\ Len(violations) = Cardinality({n \in 1..Len(isModLog) : isModLog[n].result})

C7_Witness ==
    /\ pc = "done"
    /\ exitCode = <<0>>
    /\ \E n \in 1..Len(isModLog) :
         /\ isModLog[n].queries[1].res = Raised
         /\ Len(isModLog[n].queries) = 2
         /\ isModLog[n].queries[2].res = ExitError
         /\ ~isModLog[n].result

\* What it means for get_base_ref to have tried the names of `order` in turn
\* and returned the first that resolves, or None when none does.
FirstResolvingOf(order) ==
    LET n == Len(RevParseCalls)
    IN  /\ n <= Len(order)
        /\ \A k \in 1..n : RevParseCalls[k].ref = order[k]
        /\ \A k \in 1..(n - 1) : RevParseCalls[k].res.returncode # 0
        /\ IF baseRef # <<>>
           THEN /\ n >= 1
                /\ RevParseCalls[n].res.returncode = 0
                /\ baseRef[1] = order[n]
           ELSE /\ n = Len(order)
                /\ \A k \in 1..n : RevParseCalls[k].res.returncode # 0

HasGithubBase == githubBase # <<>> /\ githubBase[1] # <<>>

\* C8 as stated: get_base_ref tries the CI-provided name, then origin/main,
\* origin/master, main, master, and returns the first that resolves, or None.
C8_OrderAsStated ==
    pc = "loop" =>
      FirstResolvingOf(
        (IF HasGithubBase THEN <<githubBase[1]>> ELSE <<>>)
        \o << <<"origin", "main">>, <<"origin", "master">>, <<"main">>, <<"master">> >>)

\* C8 amended: get_base_ref tries the CI-provided name, then that name under
\* origin/, then origin/main, origin/master, main, master, and returns the
\* first that resolves, or None when none does.
C8_OrderWithOriginOfBase ==
    pc = "loop" =>
      FirstResolvingOf(
        (IF HasGithubBase
         THEN <<githubBase[1], <<"origin">> \o githubBase[1]>> ELSE <<>>)
        \o << <<"origin", "main">>, <<"origin", "master">>, <<"main">>, <<"master">> >>)

C8_Witness ==
    /\ pc = "loop"
    /\ githubBase = <<<<"dev">>>>
    /\ baseRef = << <<"origin", "main">> >>
    /\ Len(RevParseCalls) = 3

\* the registry: the whitespace-stripped manifest lines that are neither blank
\* nor start with #
RECURSIVE RegistryOf(_)
RegistryOf(lines) ==
    IF lines = <<>> THEN {}
    ELSE LET entry == Strip(Head(lines))
         IN  (IF entry = <<>> \/ Head(entry) = "#" THEN {} ELSE {entry})
             \cup RegistryOf(Tail(lines))

Registry == IF histExists THEN RegistryOf(histLines) ELSE {}

\* the positions, in input order, of the candidates whose normalized form is
\* a registry entry
RECURSIVE RegisteredFrom(_)
RegisteredFrom(k) ==
    IF k > Len(argv) THEN <<>>
    ELSE (IF Normalize(argv[k]) \in Registry THEN <<k>> ELSE <<>>)
         \o RegisteredFrom(k + 1)

\* the normalized forms of the registered candidates from the j-th on for
\* which is_modified gave true
RECURSIVE ModifiedFrom(_, _)
ModifiedFrom(registered, j) ==
    IF j > Len(registered) THEN <<>>
    ELSE (IF isModLog[j].result THEN <<Normalize(argv[registered[j]])>> ELSE <<>>)
         \o ModifiedFrom(registered, j + 1)

\* C16: when check ends, is_modified has been evaluated once for each candidate
\* whose normalized form is a registry entry, in input order, and for no other
\* candidate; the violation list is the normalized forms of those candidates
\* for which it gave true, in input order and as often as they were passed;
\* that list is what is printed; and the exit code is 1 if the list is
\* non-empty and 0 if it is empty.
C16_ViolationsAreRegisteredAndModified ==
    pc = "done" =>
      LET registered == RegisteredFrom(1)
      IN  /\ Len(isModLog) = Len(registered)
          /\ \A j \in 1..Len(registered) :
               isModLog[j].file_path = argv[registered[j]]
          /\ violations = ModifiedFrom(registered, 1)
          /\ printed = violations
          /\ exitCode = (IF violations # <<>> THEN <<1>> ELSE <<0>>)

C16_Witness ==
    /\ pc = "done"
    /\ argv = <<PDotA, PA>>
    /\ Registry = {PA, PB}
    /\ violations = <<PA, PA>>
    /\ Len(isModLog) = 2
    /\ exitCode = <<1>>

----------------------------------------------------------------------------
(* BundleValidator: the claims *)

Produced(r) == IF r.raised = "" THEN r.errors ELSE <<>>

RECURSIVE PerBundleErrors(_, _)
PerBundleErrors(items, bundle_names) ==
    IF items = <<>> THEN <<>>
    ELSE ValidateBundleStructure(Head(items).name, Head(items).cfg, bundle_names)
         \o PerBundleErrors(Tail(items), bundle_names)

\* C4 as stated: when the top-level check fails validate returns only its
\* errors; otherwise the returned list is, in this order, every error of the
\* bundles check, of the examples check (if examples is present) and of the
\* metadata check (if metadata is present): a violation found by one check
\* does not keep a later check from running and reporting.
C4_EveryCheckReports ==
    (vpc = "returned" /\ fileState = "ok" /\ data.t = "dict")
    => IF ~({"version", "bundles"} \subseteq data.has)
       THEN /\ Len(result.errors) =
                 Cardinality({"version", "bundles"} \ data.has)
            /\ \A k \in 1..Len(result.errors) :
                 /\ result.errors[k][1] = "Missing required field: "
                 /\ result.errors[k][2] \in {"version", "bundles"} \ data.has
       ELSE result.errors =
              (IF data.bundles.t = "dict"
               THEN PerBundleErrors(data.bundles.items, Names(data.bundles.items))
               ELSE <<<<"'bundles' must be a dictionary">>>>)
              \o (IF "examples" \in data.has
                  THEN Produced(ValidateExamples(data.examples,
                                                 Names(data.bundles.items)))
                  ELSE <<>>)
              \o (IF "metadata" \in data.has
                  THEN Produced(ValidateMetadata(data.metadata, data.bundles))
                  ELSE <<>>)

\* C5 as stated: for a document that parsed to something, no validation
\* function raises; every problem comes back in the list of error strings.
C5_NeverRaises ==
    fileState = "ok" => (vpc # "raised" /\ result.kind \in {"none", "returned"})

\* C9: whenever validate returns, its flag is true exactly when its error list
\* is empty; a missing, unparseable or empty file gives a failure with exactly
\* one error; and the CLI exits 0 exactly when validate returned a true flag,
\* and 1 otherwise.
C9_FlagIffNoErrors ==
    /\ result.kind = "returned" => (result.ok <=> result.errors = <<>>)
    /\ (result.kind = "returned" /\ fileState # "ok")
         => (~result.ok /\ Len(result.errors) = 1)
    /\ vpc = "exited" =>
         /\ status \in {<<0>>, <<1>>}
         /\ status = <<0>> <=> (result.kind = "returned" /\ result.ok)
         /\ reported = (IF status = <<1>> /\ result.kind = "returned"
                        THEN result.errors ELSE <<>>)

C9_Witness ==
    /\ vpc = "exited"
    /\ fileState = "ok"
    /\ Len(bundleLog) = 2
    /\ "examples" \in data.has
    /\ "metadata" \in data.has
    /\ result.kind = "returned"
    /\ Len(result.errors) >= 3
    /\ status = <<1>>

\* the messages of e.errors that report a dangling `verb` entry
DanglingReports(e, verb) ==
    LET IsReport(m) == Len(m) = 7 /\ m[4] = verb /\ m[5] = " non-existent bundle '"
    IN  SelectSeq(e.errors, IsReport)

\* the entries of deps that are no bundle name, as often as they are listed
DanglingOf(deps, bundle_names) ==
    LET IsDangling(d) == d \notin bundle_names
    IN  SelectSeq(deps, IsDangling)

ReportsExactlyDangling(e, verb, deps) ==
    LET reports  == DanglingReports(e, verb)
        dangling == DanglingOf(deps, e.bundle_names)
    IN  /\ Len(reports) = Len(dangling)
        /\ \A k \in 1..Len(reports) :
             reports[k] = <<"Bundle '", e.bundle_name, "' ", verb,
                            " non-existent bundle '", dangling[k], "'">>

ScenarioDangling ==
    Document("dict", {"version", "bundles"},
             Mapping(<<Entry("core", CfgOk), Entry("extra", CfgDangling)>>),
             NoExamples, NoMetadata)

\* C10: for a bundle whose requires and recommends are lists when present,
\* validate_bundle's dependency errors are, per list and in list order, one
\* message for each entry that is no key of bundles, as often as it is listed,
\* and none for an entry that is a key; and the scenario document, in which
\* extra requires "missing", gives (False, [that one message]).
C10_OneErrorPerDanglingEntry ==
    /\ \A n \in 1..Len(bundleLog) :
         LET e == bundleLog[n]
             c == e.bundle_config
         IN  (/\ c.t = "dict"
              /\ "requires" \in c.has => c.requires.t = "list"
              /\ "recommends" \in c.has => c.recommends.t = "list")
             => /\ ReportsExactlyDangling(e, "requires",
                      IF "requires" \in c.has THEN c.requires.items ELSE <<>>)
                /\ ReportsExactlyDangling(e, "recommends",
                      IF "recommends" \in c.has THEN c.recommends.items ELSE <<>>)
    /\ (data = ScenarioDangling /\ vpc \in {"returned", "raised", "exited"})
         => result = [kind |-> "returned", ok |-> FALSE,
                      errors |-> <<<<"Bundle '", "extra", "' ", "requires",
                                     " non-existent bundle '", "missing", "'">>>>]

C10_Witness ==
    /\ vpc = "returned"
    /\ \E n \in 1..Len(bundleLog) :
         LET c == bundleLog[n].bundle_config
         IN  /\ c.t = "dict"
             /\ c.has = {"description", "files", "requires", "recommends"}
             /\ c.requires = ListOf(<<"missing", "missing">>)
             /\ c.recommends = ListOf(<<"core", "missing">>)
             /\ Len(bundleLog[n].errors) = 3

\* the messages of errs that report a dangling templates entry of example_name
ReferenceReports(errs, example_name) ==
    LET IsReport(m) == /\ Len(m) = 5
                       /\ m[1] = "Example '"
                       /\ m[2] = example_name
                       /\ m[3] = "' references non-existent bundle '"
    IN  SelectSeq(errs, IsReport)

\* the entries of templates that are neither "core" nor a bundle name, as
\* often as they are listed
UnknownTemplates(templates, bundle_names) ==
    LET IsUnknown(x) == x # "core" /\ x \notin bundle_names
    IN  SelectSeq(templates, IsUnknown)

HasTemplatesList(cfg) ==
    cfg.t = "dict" /\ "templates" \in cfg.has /\ cfg.templates.t = "list"

ExamplesCalls ==
    {n \in 1..Len(sectionLog) :
       /\ sectionLog[n].section = "examples"
       /\ sectionLog[n].value.t = "dict"
       /\ sectionLog[n].found.raised = ""}

ScenarioExamples == Mapping(<<Entry("demo", Templates(<<"core", "extra">>))>>)

\* C11: whenever _validate_examples returns for a mapping of examples, then for
\* each example whose config has a templates list its messages about that
\* example's references are, in list order, one message (naming the example
\* and the entry) for each entry that is neither "core" nor a key of bundles,
\* as often as it is listed, and none for "core" (defined as a bundle or not)
\* or for a key of bundles; no such message names any other example; and the
\* scenario (demo with templates core, extra and no bundle extra) gives the
\* one message naming demo and extra.
C11_OneErrorPerUnknownTemplate ==
    \A n \in ExamplesCalls :
      LET e     == sectionLog[n]
          items == e.value.items
          errs  == e.found.errors
      IN  /\ \A k \in 1..Len(items) :
               LET reports == ReferenceReports(errs, items[k].name)
                   unknown == IF HasTemplatesList(items[k].cfg)
                              THEN UnknownTemplates(items[k].cfg.templates.items,
                                                    e.against)
                              ELSE <<>>
               IN  /\ Len(reports) = Len(unknown)
                   /\ \A j \in 1..Len(reports) :
                        reports[j] = <<"Example '", items[k].name,
                                       "' references non-existent bundle '",
                                       unknown[j], "'">>
          /\ \A j \in 1..Len(errs) :
               (Len(errs[j]) = 5) => errs[j][2] \in Names(items)
          /\ (e.value = ScenarioExamples /\ "extra" \notin e.against)
               => errs = <<<<"Example '", "demo",
                             "' references non-existent bundle '", "extra", "'">>>>

C11_Witness ==
    \E n \in ExamplesCalls :
      LET e == sectionLog[n]
      IN  /\ e.against = {"extra"}
          /\ Len(e.value.items) = 2
          /\ e.value.items[1].cfg = Templates(<<"core", "missing">>)
          /\ e.value.items[2].cfg = Templates(<<"missing">>)
          /\ Len(e.found.errors) = 2

MetadataCalls ==
    {n \in 1..Len(sectionLog) :
       /\ sectionLog[n].section = "metadata"
       /\ sectionLog[n].value.t = "dict"
       /\ sectionLog[n].found.raised = ""}

\* the declared value is the number `count` (the text "2" is not the number 2)
DeclaredEquals(declared, count) == declared.t = "int" /\ declared.n = count

MismatchMessage(declared, count) ==
    <<"Metadata 'total_bundles' (", declared,
      ") doesn't match actual bundle count (", count, ")">>

\* C12: whenever _validate_metadata returns for a metadata mapping, it gives
\* exactly one error, holding the declared and the actual count, if
\* total_bundles is present and differs from the number of keys of bundles,
\* and no error if total_bundles is absent or equals that number; declaring 5
\* over 2 bundles gives the one message with 5 and 2.
C12_OneErrorOnCountMismatch ==
    \A n \in MetadataCalls :
      LET e        == sectionLog[n]
          present  == "total_bundles" \in e.value.has
          declared == e.value.total_bundles
          count    == Cardinality(Names(e.against.items))
          errs     == e.found.errors
      IN  /\ (present /\ ~DeclaredEquals(declared, count))
               => errs = <<MismatchMessage(IntStr(declared.n), IntStr(count))>>
          /\ (~present \/ DeclaredEquals(declared, count)) => errs = <<>>
          /\ (present /\ declared = IntValue(5) /\ count = 2)
               => errs = <<MismatchMessage("5", "2")>>

C12_Witness ==
    /\ vpc = "returned"
    /\ \E n \in MetadataCalls :
         /\ "total_bundles" \in sectionLog[n].value.has
         /\ sectionLog[n].value.total_bundles = IntValue(5)
         /\ Len(sectionLog[n].against.items) = 2
         /\ Len(sectionLog[n].found.errors) = 1

\* C13 as stated: the runs of the CLI on the one unmodified document give
\* identical error lists: the same messages in the same order.
C13_RunsGiveIdenticalErrors ==
    \A i \in 1..Len(runs) : \A j \in 1..Len(runs) :
      (runs[i].kind = "returned" /\ runs[j].kind = "returned")
        => runs[i].errors = runs[j].errors

\* a bundle with description, a list files, and requires / recommends that,
\* when present, are lists of bundle keys
WellFormedBundle(cfg, bundle_names) ==
    /\ cfg.t = "dict"
    /\ {"description", "files"} \subseteq cfg.has
    /\ cfg.files = "list"
    /\ "requires" \in cfg.has =>
         (cfg.requires.t = "list" /\ Range(cfg.requires.items) \subseteq bundle_names)
    /\ "recommends" \in cfg.has =>
         (cfg.recommends.t = "list" /\ Range(cfg.recommends.items) \subseteq bundle_names)

\* a document with version and a bundles mapping of such bundles, and with
\* neither examples nor metadata
WellFormedDocument(d) ==
    /\ d.t = "dict"
    /\ d.has = {"version", "bundles"}
    /\ d.bundles.t = "dict"
    /\ \A k \in 1..Len(d.bundles.items) :
         WellFormedBundle(d.bundles.items[k].cfg, Names(d.bundles.items))

Passed == [kind |-> "returned", ok |-> TRUE, errors |-> <<>>]

EmptyBundles ==
    Document("dict", {"version", "bundles"}, Mapping(<<>>), NoExamples, NoMetadata)

\* C14: for a document with version and a bundles mapping in which every bundle
\* has description, a list files and only bundle keys in requires and
\* recommends, and with no examples and no metadata, validate returns
\* (True, []) in every run and the CLI exits 0; so it does for bundles = {}.
C14_WellFormedDocumentPasses ==
    /\ (fileState = "ok" /\ WellFormedDocument(data))
         => /\ vpc \in {"returned", "raised", "exited"} => result = Passed
            /\ vpc = "exited" => status = <<0>>
            /\ \A k \in 1..Len(runs) : runs[k] = Passed
    /\ (fileState = "ok" /\ data = EmptyBundles /\ vpc = "returned")
         => (result.ok /\ result.errors = <<>>)

C14_Witness ==
    /\ vpc = "exited"
    /\ fileState = "ok"
    /\ data = Document("dict", {"version", "bundles"},
                       Mapping(<<Entry("core", CfgOk), Entry("extra", CfgRequiresCore)>>),
                       NoExamples, NoMetadata)
    /\ result = Passed
    /\ status = <<0>>

----------------------------------------------------------------------------
(* Grid: the claims *)

DigitValue(c) == CHOOSE d \in 0..9 : Digits[d + 1] = c

\* the number a label spells in decimal
RECURSIVE LabelValue(_)
LabelValue(l) ==
    IF Len(l) = 1 THEN DigitValue(l[1])
    ELSE 10 * LabelValue(SubSeq(l, 1, Len(l) - 1)) + DigitValue(l[Len(l)])

\* the labels are "0", "1", ..., "n", written without leading zeros
LabelledZeroTo(labels, n) ==
    /\ Len(labels) = n + 1
    /\ \A k \in 1..(n + 1) :
         /\ Len(labels[k]) >= 1
         /\ \A c \in 1..Len(labels[k]) : labels[k][c] \in Range(Digits)
         /\ Len(labels[k]) > 1 => labels[k][1] # "0"
         /\ LabelValue(labels[k]) = k - 1

\* df is an (n+1) x (n+1) frame labelled "0".."n" both ways
SquareFrame(df, n) ==
    /\ Len(df.values) = n + 1
    /\ \A i \in 1..(n + 1) : Len(df.values[i]) = n + 1
    /\ LabelledZeroTo(df.index, n)
    /\ LabelledZeroTo(df.columns, n)

\* C15: once Grid(n) is built, for n >= 0, x and y are (n+1) x (n+1) frames
\* labelled "0".."n", y holds j in column j of every row and x is the
\* transpose of y; every diff() call returns x - y, which holds i - j in row
\* i, column j (rows and columns counted from 0) and is the negation of its
\* transpose; a further call returns the same frame, and x and y are as
\* built after every call.
C15_GridAndDiff ==
    gpc = "ready" =>
      LET m == grid_n + 1
      IN  /\ grid_n >= 0
          /\ SquareFrame(grid_y, grid_n)
          /\ SquareFrame(grid_x, grid_n)
          /\ \A i \in 1..m : \A j \in 1..m :
               /\ grid_y.values[i][j] = j - 1
               /\ grid_x.values[i][j] = grid_y.values[j][i]
          /\ \A c \in 1..Len(diffLog) :
               /\ SquareFrame(diffLog[c], grid_n)
               /\ \A i \in 1..m : \A j \in 1..m :
                    /\ diffLog[c].values[i][j] =
                         grid_x.values[i][j] - grid_y.values[i][j]
                    /\ diffLog[c].values[i][j] = (i - 1) - (j - 1)
                    /\ diffLog[c].values[i][j] = 0 - diffLog[c].values[j][i]
               /\ diffLog[c] = diffLog[1]

C15_Witness ==
    /\ gpc = "ready"
    /\ args # <<>>
    /\ grid_n >= 10
    /\ Len(diffLog) >= 2
    /\ diffLog[2].values[grid_n + 1][1] = grid_n
    /\ diffLog[2].index[grid_n + 1] = <<"1", Digits[grid_n - 9]>>

====
